---- MODULE Spec2Model ----
(***************************************************************************)
(* Model of the pipeline dashboard: the two fetchers wrapped by            *)
(* st.cache_data(ttl=3600), the aggregation pass process_data, the         *)
(* "Clear Cache" handler and the build filter of pipeline_visualizer.py,   *)
(* and the uncached latest-build probe of utils/azure_api.py.              *)
(*                                                                         *)
(* Conventions.  A Python dict is a TLA+ function over the keys it holds,  *)
(* so d.get(k, default) is Get(d, k, default).  A buildNumber is a         *)
(* sequence of one-character strings, so that the substring test of the    *)
(* filter is computed and not assumed.  A rate is kept in hundredths of a  *)
(* percent (70.0 % is 7000), which is exactly the precision round(x, 2)    *)
(* leaves.  A network call answers with an HTTP response, or raises.       *)
(***************************************************************************)
EXTENDS Integers, Sequences, FiniteSets, TLC

VARIABLES
    now,            \* the clock st.cache_data reads
    ticks,          \* number of clock advances so far
    builds_cache,   \* entries of get_builds_for_pipeline's cache, by key
    tests_cache,    \* entries of get_aggregated_test_results's cache, by key
    force_refresh,  \* st.session_state.force_refresh
    purged,         \* entries a clear removed that would still be live, not called since
    pc,             \* where the client of the API stands
    pd_builds,      \* process_data: its argument `builds`
    pd_data,        \* process_data: `data`
    pd_df,          \* process_data: the DataFrame it returned
    pd_asked,       \* build ids process_data asked test outcomes for, in order
    last,           \* what the call just made did
    t_content,      \* tally check: the test-result records the server holds
    t_out,          \* tally check: what the fetcher returned for each response
    t_row,          \* tally check: the record aggregated from a returned tally
    r_tally,        \* rate check: the tally handed to the loop body
    r_data,         \* rate check: `data` after the loop body ran on it
    f_input,        \* filter check: the builds fetched
    f_sel,          \* filter check: selected_build_filter
    f_builds,       \* filter check: `builds` as the script holds it
    f_runs,         \* filter check: number of times the filter was applied
    s_cached,       \* staleness check: the cached builds per pipeline name
    s_marker,       \* staleness check: StalenessMarker, by pipeline name
    s_probe,        \* staleness check: the latest probe per pipeline name
    s_view          \* staleness check: what the latest render showed

cacheVars == <<now, ticks, builds_cache, tests_cache, force_refresh, purged,
               pc, pd_builds, pd_data, pd_df, pd_asked, last>>
tallyVars == <<t_content, t_out, t_row>>
rateVars == <<r_tally, r_data>>
filterVars == <<f_input, f_sel, f_builds, f_runs>>
staleVars == <<s_cached, s_marker, s_probe, s_view>>
vars == <<cacheVars, tallyVars, rateVars, filterVars, staleVars>>

-----------------------------------------------------------------------------
(* Python values *)

None == "None"

Get(d, k, default) == IF k \in DOMAIN d THEN d[k] ELSE default

\* All sequences over S of length at most n.
SeqUpTo(S, n) == UNION {[1..k -> S] : k \in 0..n}

\* str.lower() on the outcome strings the model sends.
Lower(s) ==
    CASE s = "Passed" -> "passed"
      [] s = "PASSED" -> "passed"
      [] s = "Failed" -> "failed"
      [] s = "NotExecuted" -> "notexecuted"
      [] OTHER -> s

\* str.capitalize() on the build reasons the model sends.
Capitalize(s) ==
    CASE s = "manual" -> "Manual"
      [] s = "individualCI" -> "Individualci"
      [] OTHER -> s

\* pd.to_datetime on the startTime strings the model sends.
to_datetime(s) ==
    CASE s = "2024-01-01T00:00:00Z" -> <<2024, 1, 1>>
      [] s = "2024-01-02T00:00:00Z" -> <<2024, 1, 2>>
      [] s = "2024-01-03T00:00:00Z" -> <<2024, 1, 3>>
      [] OTHER -> <<"NaT">>

\* A variant of Contains: str.startswith in place of `in`.
StartsWith(sub, s) == Len(sub) <= Len(s) /\ SubSeq(s, 1, Len(sub)) = sub

\* Python's `sub in s` on strings.
Contains(sub, s) ==
    \E i \in 0..(Len(s) - Len(sub)) : SubSeq(s, i + 1, i + Len(sub)) = sub

\* round(n / d * 100, 2) in hundredths, d > 0: the nearest hundredth, a tie
\* going to the even one (CPython's result for every 0 <= n <= d < 160).
Round2(n, d) ==
    LET q == (n * 10000) \div d
        r == (n * 10000) % d
    IN  IF 2 * r < d THEN q
        ELSE IF 2 * r > d THEN q + 1
        ELSE IF q % 2 = 0 THEN q ELSE q + 1

-----------------------------------------------------------------------------
(* The remote service *)

ORGANIZATION == "org"
PROJECT == "proj"

\* What requests.get can do: answer with a status and a JSON body, or raise.
Http(status, json) == [kind |-> "http", status_code |-> status, json |-> json]
Raises == [kind |-> "raise"]

\* A JSON body: an array or an object.
JsonList(items) == [type |-> "list", val |-> items]
JsonDict(fields) == [type |-> "dict", val |-> fields]

\* What a call of a fetcher gives its caller: a returned value or an
\* exception, and the st.warning / st.error it showed.
Returned(v, shown) == [raised |-> FALSE, value |-> v, shown |-> shown]
Raised == [raised |-> TRUE, value |-> None, shown |-> "none"]

-----------------------------------------------------------------------------
(* get_aggregated_test_results, the body st.cache_data wraps *)

ZeroTally == [passed |-> 0, failed |-> 0, total |-> 0]

\* A variant of CountOutcome: the condition of the generator left out.
CountAll(results, what) == Len(results)

\* sum(1 for result in results if result.get("outcome", "").lower() == what)
CountOutcome(results, what) ==
    Cardinality({i \in 1..Len(results) :
                    Lower(Get(results[i], "outcome", "")) = what})

\* A variant of Unwrap: the body is taken as it comes.
UnwrapNever(json) == json

\* `results` after the unwrapping of lines 60-62.
Unwrap(json) ==
    IF json.type = "dict" /\ "value" \in DOMAIN json.val
    THEN JsonList(json.val["value"])
    ELSE json

\* A variant of fetch_test_results: a non-success status raises, as
\* response.raise_for_status() would.
fetch_test_results_raise(response) ==
    IF response.kind = "raise" THEN Raised
    ELSE IF response.status_code = 200
    THEN LET results == Unwrap(response.json)
         IN  IF results.type = "list"
             THEN Returned([passed |-> CountOutcome(results.val, "passed"),
                            failed |-> CountOutcome(results.val, "failed"),
                            total |-> Len(results.val)], "none")
             ELSE IF DOMAIN results.val = {}
             THEN Returned(ZeroTally, "none")
             ELSE Raised
    ELSE Raised

fetch_test_results(response) ==
    IF response.kind = "raise" THEN Raised
    ELSE IF response.status_code = 200
    THEN LET results == Unwrap(response.json)
         IN  IF results.type = "list"
             THEN Returned([passed |-> CountOutcome(results.val, "passed"),
                            failed |-> CountOutcome(results.val, "failed"),
                            total |-> Len(results.val)], "none")
             \* a dict without "value": the loops run over its keys, and
             \* str has no .get
             ELSE IF DOMAIN results.val = {}
             THEN Returned(ZeroTally, "none")
             ELSE Raised
    ELSE Returned(ZeroTally, "warning")

-----------------------------------------------------------------------------
(* process_data, the body of its loop *)

\* A variant of Rate: the quotient cut to two decimals instead of rounded.
RateTruncated(count, total) == IF total > 0 THEN (count * 10000) \div total ELSE 0

Rate(count, total) == IF total > 0 THEN Round2(count, total) ELSE 0

MakeRow(build, test_results) ==
    LET total == test_results.total
        passed == test_results.passed
        failed == test_results.failed
        timestamp == build.startTime
        pass_rate == Rate(passed, total)
        fail_rate == Rate(failed, total)
    IN  ("Datetime" :> timestamp) @@ ("Build" :> build.buildNumber) @@
        ("Passed" :> passed) @@ ("Failed" :> failed) @@ ("Total" :> total) @@
        ("Pass Rate (%)" :> pass_rate) @@ ("Fail Rate (%)" :> fail_rate) @@
        ("Link" :> build.link)

\* A variant of DataFrame: the rows come out last build first.
DataFrameReversed(data) ==
    IF data # <<>>
    THEN [i \in 1..Len(data) |->
            [data[Len(data) + 1 - i] EXCEPT
                !["Datetime"] = to_datetime(data[Len(data) + 1 - i]["Datetime"])]]
    ELSE data

\* df = pd.DataFrame(data), its Datetime column parsed when it has rows.
DataFrame(data) ==
    IF data # <<>>
    THEN [i \in 1..Len(data) |->
            [data[i] EXCEPT !["Datetime"] = to_datetime(data[i]["Datetime"])]]
    ELSE data

-----------------------------------------------------------------------------
(* get_builds_for_pipeline, the body st.cache_data wraps *)

BuildLink(id) == <<"_build/results", ORGANIZATION, PROJECT, id>>

\* The f-string of line 46, kept as its three interpolated parts.
Description(build) ==
    [buildNumber |-> Get(build, "buildNumber", <<"N", "/", "A">>),
     reason |-> Capitalize(Get(build, "reason", "Manual")),
     sourceBranch |-> Get(build, "sourceBranch", "Unknown Branch")]

BuildSummary(build) ==
    [id |-> build.id,
     buildNumber |-> Get(build, "buildNumber", <<"N", "/", "A">>),
     startTime |-> Get(build, "startTime", ""),
     description |-> Description(build),
     link |-> BuildLink(build.id)]

\* pipeline_id and max_builds go into the request URL only; what comes back
\* is the service's to decide.
fetch_builds(pipeline_id, max_builds, response) ==
    IF response.kind = "raise" THEN Raised
    ELSE IF response.status_code = 200
    THEN LET builds == Get(response.json.val, "value", <<>>)
         IN  Returned([i \in 1..Len(builds) |-> BuildSummary(builds[i])], "none")
    ELSE Returned(<<>>, "error")

-----------------------------------------------------------------------------
(* st.cache_data(ttl=3600) *)

TTL == 3600

NoEntry == [present |-> FALSE]
Entry(v, t) == [present |-> TRUE, value |-> v, ins |-> t]

\* A variant of Live: no ttl, an entry is served for ever.
LiveForever(entry, t) == entry.present

\* An entry is served while the clock is before its insertion time plus ttl.
Live(entry, t) == entry.present /\ t < entry.ins + TTL

\* A variant of CachedCall: the decorator missing, the body runs every time.
CachedCallNoCache(cache, key, t, fresh) ==
    IF fresh.raised
    THEN [cache |-> cache, out |-> fresh, net |-> 1]
    ELSE [cache |-> [cache EXCEPT ![key] = Entry(fresh.value, t)],
          out |-> fresh, net |-> 1]

\* One call of a cached function for `key` at time t, `fresh` being what
\* the wrapped body would give now: the cache after the call, what the
\* caller gets, and the number of times the body (one network call) ran.
CachedCall(cache, key, t, fresh) ==
    IF Live(cache[key], t)
    THEN [cache |-> cache, out |-> Returned(cache[key].value, "none"), net |-> 0]
    ELSE IF fresh.raised
    THEN [cache |-> cache, out |-> fresh, net |-> 1]
    ELSE [cache |-> [cache EXCEPT ![key] = Entry(fresh.value, t)],
          out |-> fresh, net |-> 1]

-----------------------------------------------------------------------------
(* The checks of the pure parts, at rest *)

TallyIdle == t_content = <<>> /\ t_out = <<>> /\ t_row = <<>>
RateIdle == r_tally = ZeroTally /\ r_data = <<>>
FilterIdle == f_input = <<>> /\ f_sel = "None" /\ f_builds = <<>> /\ f_runs = 0
StaleIdle == s_cached = <<>> /\ s_marker = <<>> /\ s_probe = <<>> /\ s_view = <<>>

-----------------------------------------------------------------------------
(* The dashboard: clock, the two caches, their callers *)

MaxTicks == 2      \* clock advances explored
MaxBuilds == 2     \* length of the build lists handed to process_data

\* Clock advances: one unit, and one unit short of the ttl.
TickSteps == {1, TTL - 1}

\* The builds the service knows: a finished one, and a queued one that has
\* neither buildNumber nor startTime yet.
Raw1 == [id |-> 1, buildNumber |-> <<"1", ".", "0">>,
         startTime |-> "2024-01-01T00:00:00Z", reason |-> "manual",
         sourceBranch |-> "refs/heads/main"]
Raw2 == [id |-> 2, reason |-> "individualCI"]
RawBuilds == {Raw1, Raw2}
BuildIds == {b.id : b \in RawBuilds}

\* config.yml: pipelines (name -> definition id) and max_builds_option.
PIPELINES == [nightly |-> 11, release |-> 12]
MAX_BUILDS_OPTION == {5}

PipelineIds == {PIPELINES[name] : name \in DOMAIN PIPELINES}
BuildKeys == PipelineIds \X MAX_BUILDS_OPTION
\* The key of the script's call when the first pipeline is the selected one.
SelectedKeys == {PIPELINES["nightly"]} \X MAX_BUILDS_OPTION
TestKeys == {<<id>> : id \in BuildIds}

\* Answers of the builds endpoint.
BuildsResponses ==
    {Http(200, JsonDict([value |-> <<Raw2, Raw1>>])),
     Http(200, JsonDict([count |-> 0])),
     Http(500, JsonDict([message |-> "error"])),
     Raises}

Res(outcome) == [outcome |-> outcome]

\* Answers of the test-results endpoint.
TestsResponses ==
    {Http(200, JsonList(<<Res("Passed"), Res("failed"), Res("NotExecuted")>>)),
     Http(404, JsonDict([message |-> "error"])),
     Raises}

\* The status a network call ended with; 0 stands for "no call was made",
\* -1 for "the call raised".
Status(net, response) ==
    IF net = 0 THEN 0
    ELSE IF response.kind = "raise" THEN -1 ELSE response.status_code

\* How a call found the entry of its key.
Prior(entry, t) ==
    IF ~entry.present THEN "absent"
    ELSE IF Live(entry, t) THEN "live" ELSE "expired"

NoCall == [fn |-> "none", key |-> <<>>, prior |-> "absent", net |-> 0,
           status |-> 0, raised |-> FALSE,
           purged |-> FALSE, builds |-> <<>>, tally |-> ZeroTally]

\* The call is for a key whose entry a clear removed, and that entry would
\* still be within its ttl now.
WasPurged(fn, key) == \E p \in purged : p.fn = fn /\ p.key = key

Called(fn, key) == {p \in purged : ~(p.fn = fn /\ p.key = key)}

\* The dashboard as the process starts: the clock at its origin, nothing cached.
CacheInit ==
    /\ now = 0
    /\ ticks = 0
    /\ builds_cache = [k \in BuildKeys |-> NoEntry]
    /\ tests_cache = [k \in TestKeys |-> NoEntry]
    /\ force_refresh = FALSE
    /\ purged = {}
    /\ pc = "idle"
    /\ pd_builds = <<>>
    /\ pd_data = <<>>
    /\ pd_df = <<>>
    /\ pd_asked = <<>>
    /\ last = NoCall

Init == CacheInit /\ TallyIdle /\ RateIdle /\ FilterIdle /\ StaleIdle

\* The clock advances; no entry changes (expiry is only looked at by a call).
\* The two records of past calls follow: `last` is about the call just made,
\* `purged` about removed entries that would still be within their ttl.
Tick ==
    /\ ticks < MaxTicks
    /\ \E d \in TickSteps : now' = now + d
    /\ ticks' = ticks + 1
    /\ last' = NoCall
    /\ purged' = {p \in purged : now' < p.ins + TTL}
    /\ UNCHANGED <<builds_cache, tests_cache, force_refresh, pc,
                   pd_builds, pd_data, pd_df, pd_asked>>

\* builds = get_builds_for_pipeline(selected_pipeline_id, max_builds=...)
CallBuildsFor(keys) ==
    /\ pc = "idle"
    /\ \E key \in keys, response \in BuildsResponses :
         LET call == CachedCall(builds_cache, key, now,
                                fetch_builds(key[1], key[2], response))
         IN  /\ builds_cache' = call.cache
             /\ last' = [fn |-> "builds", key |-> key,
                         prior |-> Prior(builds_cache[key], now), net |-> call.net,
                         status |-> Status(call.net, response),
                         raised |-> call.out.raised,
                         purged |-> WasPurged("builds", key),
                         builds |-> IF call.out.raised THEN <<>> ELSE call.out.value,
                         tally |-> ZeroTally]
             /\ purged' = Called("builds", key)
    /\ UNCHANGED <<now, ticks, tests_cache, force_refresh, pc, pd_builds,
                   pd_data, pd_df, pd_asked>>

\* The call for any configured pipeline.
CallBuilds == CallBuildsFor(BuildKeys)

\* The call for the selected pipeline.
CallSelectedBuilds == CallBuildsFor(SelectedKeys)

\* get_aggregated_test_results(build_id), called directly.
CallTests ==
    /\ pc = "idle"
    /\ \E key \in TestKeys, response \in TestsResponses :
         LET call == CachedCall(tests_cache, key, now, fetch_test_results(response))
         IN  /\ tests_cache' = call.cache
             /\ last' = [fn |-> "tests", key |-> key,
                         prior |-> Prior(tests_cache[key], now), net |-> call.net,
                         status |-> Status(call.net, response),
                         raised |-> call.out.raised,
                         purged |-> WasPurged("tests", key),
                         builds |-> <<>>,
                         tally |-> IF call.out.raised THEN ZeroTally ELSE call.out.value]
             /\ purged' = Called("tests", key)
    /\ UNCHANGED <<now, ticks, builds_cache, force_refresh, pc, pd_builds,
                   pd_data, pd_df, pd_asked>>

\* The entries of a cache still within their ttl, as a clear finds them.
LiveEntries(fn, cache) ==
    {[fn |-> fn, key |-> k, ins |-> cache[k].ins] :
        k \in {k \in DOMAIN cache : Live(cache[k], now)}}

\* A variant of ClearCache: get_aggregated_test_results.clear() left out.
ClearBuildsOnly ==
    /\ pc = "idle"
    /\ builds_cache' = [k \in BuildKeys |-> NoEntry]
    /\ tests_cache' = tests_cache
    /\ force_refresh' = FALSE
    /\ purged' = LiveEntries("builds", builds_cache)
                    \cup LiveEntries("tests", tests_cache)
    /\ last' = [NoCall EXCEPT !.fn = "clear"]
    /\ UNCHANGED <<now, ticks, pc, pd_builds, pd_data, pd_df, pd_asked>>

\* if st.button("Clear Cache"): ... and the notice that follows it.
ClearCache ==
    /\ pc = "idle"
    /\ builds_cache' = [k \in BuildKeys |-> NoEntry]
    /\ tests_cache' = [k \in TestKeys |-> NoEntry]
    /\ force_refresh' = FALSE
    /\ purged' = LiveEntries("builds", builds_cache)
                    \cup LiveEntries("tests", tests_cache)
    /\ last' = [NoCall EXCEPT !.fn = "clear"]
    /\ UNCHANGED <<now, ticks, pc, pd_builds, pd_data, pd_df, pd_asked>>

\* The build lists a caller hands to process_data.
PdInputs == SeqUpTo({BuildSummary(b) : b \in RawBuilds}, MaxBuilds)

\* process_data(builds) is entered.
ProcessStart ==
    /\ pc = "idle"
    /\ pd_builds' \in PdInputs
    /\ pc' = "loop"
    /\ UNCHANGED <<now, ticks, builds_cache, tests_cache, force_refresh, purged,
                   pd_data, pd_df, pd_asked, last>>

\* One iteration of `for build in builds`.
ProcessStep ==
    /\ pc = "loop"
    /\ Len(pd_data) < Len(pd_builds)
    /\ \E response \in TestsResponses :
         LET build == pd_builds[Len(pd_data) + 1]
             key == <<build.id>>
             call == CachedCall(tests_cache, key, now, fetch_test_results(response))
         IN  /\ tests_cache' = call.cache
             /\ pd_asked' = Append(pd_asked, [build_id |-> build.id,
                                               status |-> Status(call.net, response)])
             /\ last' = [fn |-> "tests", key |-> key,
                         prior |-> Prior(tests_cache[key], now), net |-> call.net,
                         status |-> Status(call.net, response),
                         raised |-> call.out.raised,
                         purged |-> WasPurged("tests", key),
                         builds |-> <<>>,
                         tally |-> IF call.out.raised THEN ZeroTally ELSE call.out.value]
             /\ purged' = Called("tests", key)
             /\ IF call.out.raised
                THEN pc' = "raised" /\ pd_data' = pd_data
                ELSE pc' = "loop" /\ pd_data' = Append(pd_data, MakeRow(build, call.out.value))
    /\ UNCHANGED <<now, ticks, builds_cache, force_refresh, pd_builds, pd_df>>

\* The loop is over: the DataFrame is built and returned.
ProcessReturn ==
    /\ pc = "loop"
    /\ Len(pd_data) = Len(pd_builds)
    /\ pd_df' = DataFrame(pd_data)
    /\ pc' = "returned"
    /\ UNCHANGED <<now, ticks, builds_cache, tests_cache, force_refresh, purged,
                   pd_builds, pd_data, pd_asked, last>>

\* The caller is done with what process_data gave it (the DataFrame, or
\* the exception), and the locals of the call are gone.
ProcessEnd ==
    /\ pc \in {"returned", "raised"}
    /\ pc' = "idle"
    /\ pd_builds' = <<>>
    /\ pd_data' = <<>>
    /\ pd_df' = <<>>
    /\ pd_asked' = <<>>
    /\ UNCHANGED <<now, ticks, builds_cache, tests_cache, force_refresh, purged, last>>

othersIdle == UNCHANGED <<tallyVars, rateVars, filterVars, staleVars>>

\* The cached fetchers under their direct callers, the clock and the clear.
Next ==
    \/ Tick /\ othersIdle
    \/ CallBuilds /\ othersIdle
    \/ CallTests /\ othersIdle
    \/ ClearCache /\ othersIdle

Spec == Init /\ [][Next]_vars

\* The script on the selected pipeline: its builds fetched, aggregation
\* passes over the test-outcome cache, and the clock.
NextPass ==
    \/ Tick /\ othersIdle
    \/ CallSelectedBuilds /\ othersIdle
    \/ ProcessStart /\ othersIdle
    \/ ProcessStep /\ othersIdle
    \/ ProcessReturn /\ othersIdle
    \/ ProcessEnd /\ othersIdle

SpecPass == Init /\ [][NextPass]_vars

-----------------------------------------------------------------------------
(* get_aggregated_test_results on every list of test results, both shapes *)

MaxResults == 3    \* length of the test-result lists

\* Test-result records: the spellings of the two counted outcomes, another
\* outcome, and a record without "outcome".
ResultRecords ==
    {Res("Passed"), Res("passed"), Res("PASSED"), Res("Failed"), Res("failed"),
     Res("NotExecuted"), [testCaseTitle |-> "t"]}

Pending == [raised |-> FALSE, value |-> ZeroTally, shown |-> "pending"]

\* The build whose results are asked for.
ABuild == BuildSummary(Raw1)

InitTally ==
    /\ t_content \in SeqUpTo(ResultRecords, MaxResults)
    /\ t_out = [bare |-> Pending, wrapped |-> Pending, failed |-> Pending]
    /\ t_row = <<>>
    /\ CacheInit /\ RateIdle /\ FilterIdle /\ StaleIdle

\* The service answers 200 with the records as a bare array.
FetchBare ==
    /\ t_out.bare = Pending
    /\ t_out' = [t_out EXCEPT
                   !.bare = fetch_test_results(Http(200, JsonList(t_content)))]
    /\ UNCHANGED <<t_content, t_row>>

\* The service answers 200 with the records under "value".
FetchWrapped ==
    /\ t_out.wrapped = Pending
    /\ t_out' = [t_out EXCEPT
                   !.wrapped = fetch_test_results(
                                   Http(200, JsonDict([value |-> t_content])))]
    /\ UNCHANGED <<t_content, t_row>>

\* The service answers with a non-success status.
FetchFailed ==
    /\ t_out.failed = Pending
    /\ \E status \in {404, 500} :
         t_out' = [t_out EXCEPT
                     !.failed = fetch_test_results(
                                    Http(status, JsonDict([message |-> "error"])))]
    /\ UNCHANGED <<t_content, t_row>>

\* process_data's loop body on a tally the fetcher returned.
AggregateTally ==
    /\ t_row = <<>>
    /\ \E which \in {"bare", "wrapped", "failed"} :
         /\ t_out[which] # Pending
         /\ ~t_out[which].raised
         /\ t_row' = <<MakeRow(ABuild, t_out[which].value)>>
    /\ UNCHANGED <<t_content, t_out>>

NextTally ==
    \/ FetchBare /\ UNCHANGED <<cacheVars, rateVars, filterVars, staleVars>>
    \/ FetchWrapped /\ UNCHANGED <<cacheVars, rateVars, filterVars, staleVars>>
    \/ FetchFailed /\ UNCHANGED <<cacheVars, rateVars, filterVars, staleVars>>
    \/ AggregateTally /\ UNCHANGED <<cacheVars, rateVars, filterVars, staleVars>>

SpecTally == InitTally /\ [][NextTally]_vars

-----------------------------------------------------------------------------
(* process_data's loop body on every tally *)

MaxCount == 10     \* largest count in a tally

\* The tallies get_aggregated_test_results can return: counts of disjoint
\* sets of the `total` records.
Tallies ==
    {t \in [passed : 0..MaxCount, failed : 0..MaxCount, total : 0..MaxCount] :
        t.passed + t.failed <= t.total}

InitRates ==
    /\ r_tally \in Tallies
    /\ r_data = <<>>
    /\ CacheInit /\ TallyIdle /\ FilterIdle /\ StaleIdle

\* The loop body runs once, get_aggregated_test_results having returned r_tally.
AppendRow ==
    /\ r_data = <<>>
    /\ r_data' = Append(r_data, MakeRow(ABuild, r_tally))
    /\ UNCHANGED r_tally

NextRates == AppendRow /\ UNCHANGED <<cacheVars, tallyVars, filterVars, staleVars>>

SpecRates == InitRates /\ [][NextRates]_vars

-----------------------------------------------------------------------------
(* The build filter of the script *)

MaxFetched == 3    \* length of the build lists the filter is given
MaxRuns == 2       \* times the filter is applied in a row

\* config.yml's build_filters: a name for each substring.
BUILD_FILTERS ==
    [nightly |-> <<"n">>, Release |-> <<"R">>, rc |-> <<"r", "c">>]

FilterChoices == {"None"} \cup DOMAIN BUILD_FILTERS

\* Builds as the builds endpoint lists them, by buildNumber.
FilterRaw ==
    {[id |-> 1, buildNumber |-> <<"n", "1">>],
     [id |-> 2, buildNumber |-> <<"R", "n">>],
     [id |-> 3, buildNumber |-> <<"r", "c">>],
     [id |-> 4, buildNumber |-> <<"N", "r">>],
     [id |-> 5]}

\* [build for build in builds if filter_str in build["buildNumber"]]
FilterBuilds(builds, filter_str) ==
    SelectSeq(builds, LAMBDA build : Contains(filter_str, build.buildNumber))

\* Lines 134-136 of the script.
ApplyBuildFilter(builds, selected_build_filter) ==
    IF selected_build_filter # "None"
    THEN FilterBuilds(builds, BUILD_FILTERS[selected_build_filter])
    ELSE builds

InitFilter ==
    /\ f_input \in SeqUpTo({BuildSummary(b) : b \in FilterRaw}, MaxFetched)
    /\ f_sel \in FilterChoices
    /\ f_builds = f_input
    /\ f_runs = 0
    /\ CacheInit /\ TallyIdle /\ RateIdle /\ StaleIdle

\* The filter runs on `builds` as it stands.
RunFilter ==
    /\ f_runs < MaxRuns
    /\ f_builds' = ApplyBuildFilter(f_builds, f_sel)
    /\ f_runs' = f_runs + 1
    /\ UNCHANGED <<f_input, f_sel>>

NextFilter == RunFilter /\ UNCHANGED <<cacheVars, tallyVars, rateVars, staleVars>>

SpecFilter == InitFilter /\ [][NextFilter]_vars

-----------------------------------------------------------------------------
(* Staleness: the uncached probe, the marker, the render *)

\* A variant of get_latest_build_no_cache: the ids come out oldest first.
get_latest_build_reversed(response) ==
    IF response.kind = "raise" THEN Raised
    ELSE IF response.status_code = 200
    THEN LET builds == Get(response.json.val, "value", <<>>)
         IN  Returned([i \in 1..Len(builds) |-> builds[Len(builds) + 1 - i].id], "none")
    ELSE Returned(<<>>, "none")

\* AzureAPI.get_latest_build_no_cache: the ids of the builds listed, in the
\* order the service lists them; no builds on a non-success status.
get_latest_build_no_cache(response) ==
    IF response.kind = "raise" THEN Raised
    ELSE IF response.status_code = 200
    THEN LET builds == Get(response.json.val, "value", <<>>)
         IN  Returned([i \in 1..Len(builds) |-> builds[i].id], "none")
    ELSE Returned(<<>>, "none")

Raw3 == [id |-> 3, buildNumber |-> <<"1", ".", "1">>,
         startTime |-> "2024-01-03T00:00:00Z"]

\* Answers of the builds endpoint to the probe (maxBuildsPerDefinition=1).
ProbeResponses ==
    {Http(200, JsonDict([value |-> <<Raw1>>])),
     Http(200, JsonDict([value |-> <<Raw3>>])),
     Http(200, JsonDict([value |-> <<Raw3, Raw1>>])),
     Http(200, JsonDict([value |-> <<>>])),
     Http(200, JsonDict([count |-> 0])),
     Http(503, JsonDict([message |-> "error"])),
     Raises}

\* What get_builds_for_pipeline can have cached for a pipeline.
CachedLists ==
    {<<>>, <<BuildSummary(Raw1)>>, <<BuildSummary(Raw3), BuildSummary(Raw1)>>,
     <<BuildSummary(Raw2), BuildSummary(Raw1)>>}

NoProbe == [kind |-> "none"]
NoView == [name |-> "", stale |-> FALSE, table |-> <<>>]

InitStale ==
    /\ s_cached \in [DOMAIN PIPELINES -> CachedLists]
    /\ s_marker = <<>>
    /\ s_probe = [name \in DOMAIN PIPELINES |-> NoProbe]
    /\ s_view = NoView
    /\ CacheInit /\ TallyIdle /\ RateIdle /\ FilterIdle

\* The marker after a probe of `name` returned `ids`: the single id is
\* stored under the name; nothing is stored when there is none.
StoreMarker(marker, name, ids) ==
    IF ids # <<>>
    THEN [n \in DOMAIN marker \cup {name} |-> IF n = name THEN ids[1] ELSE marker[n]]
    ELSE marker

\* A timer tick probes one pipeline, bypassing the cache.
Probe ==
    \E name \in DOMAIN PIPELINES, response \in ProbeResponses :
        LET got == get_latest_build_no_cache(response)
        IN  /\ s_probe' = [s_probe EXCEPT ![name] = response]
            /\ s_marker' = IF got.raised THEN s_marker
                           ELSE StoreMarker(s_marker, name, got.value)
            /\ UNCHANGED <<s_cached, s_view>>

\* The newest build id of a cached list (the service lists newest first);
\* 0 when the list is empty.
NewestId(builds) == IF builds # <<>> THEN builds[1].id ELSE 0

\* The flag of the render: a marker exists and differs from the cached
\* data's newest id.
IsStale(marker, name, builds) ==
    name \in DOMAIN marker /\ marker[name] # NewestId(builds)

\* A pipeline's cached build table is rendered, with the warning or not.
Render ==
    \E name \in DOMAIN PIPELINES :
        /\ s_view' = [name |-> name,
                      stale |-> IsStale(s_marker, name, s_cached[name]),
                      table |-> s_cached[name]]
        /\ UNCHANGED <<s_cached, s_marker, s_probe>>

NextStale ==
    \/ Probe /\ UNCHANGED <<cacheVars, tallyVars, rateVars, filterVars>>
    \/ Render /\ UNCHANGED <<cacheVars, tallyVars, rateVars, filterVars>>

SpecStale == InitStale /\ [][NextStale]_vars

-----------------------------------------------------------------------------
(* Properties of the cache layer (Spec) *)

\* What the call of the step returned, for the function it was a call of.
Out(fn, call) == IF fn = "builds" THEN call.builds ELSE call.tally

\* A step that is a call of `fn` for key k, found by the record it leaves.
IsCall(fn, k) == last'.fn = fn /\ last'.key = k

\* Within the ttl: less than TTL time units since the insertion.
Within(entry) == entry.present /\ now - entry.ins < TTL
Elapsed(entry) == entry.present /\ now - entry.ins >= TTL

HitOf(fn, cache, cacheNext) ==
    \A k \in DOMAIN cache :
        \* a call for k within the ttl is served from the entry, which
        \* stays as it was, and nothing goes over the network
        /\ IsCall(fn, k) /\ Within(cache[k])
             => /\ last'.net = 0
                /\ ~last'.raised
                /\ Out(fn, last') = cache[k].value
                /\ cacheNext[k] = cache[k]
        \* and nothing else than a clear, or a call for k once the ttl has
        \* elapsed, touches the entry of k
        /\ cache[k].present /\ cacheNext[k] # cache[k]
             => \/ last'.fn = "clear"
                \/ IsCall(fn, k) /\ Elapsed(cache[k])

\* C1: for each cached fetcher and each key, once a result is stored, every
\* call for that key made less than TTL after the insertion and before any
\* clear returns the stored result unchanged and makes no network call,
\* whatever calls for other keys come in between.
C1_HitWithinTtl ==
    [][HitOf("builds", builds_cache, builds_cache')
       /\ HitOf("tests", tests_cache, tests_cache')]_vars

\* A call served from an entry one unit short of its ttl, a call for
\* another key of the same function having come in between.
C1_Witness ==
    /\ last.fn = "builds"
    /\ last.net = 0
    /\ builds_cache[last.key].present
    /\ now = builds_cache[last.key].ins + TTL - 1
    /\ last.builds = builds_cache[last.key].value
    /\ \E j \in BuildKeys \ {last.key} :
         builds_cache[j].present /\ builds_cache[j].ins > builds_cache[last.key].ins

RefreshOf(fn, cache, cacheNext) ==
    \A k \in DOMAIN cache :
        IsCall(fn, k) /\ Elapsed(cache[k])
          => /\ last'.net = 1
             /\ ~last'.raised => cacheNext[k] = [present |-> TRUE,
                                                 value |-> Out(fn, last'),
                                                 ins |-> now]
             /\ last'.raised => cacheNext[k] = cache[k]
             /\ \A j \in DOMAIN cache \ {k} : cacheNext[j] = cache[j]

\* C2: expiry is lazy and per key.  The first call for a key once TTL has
\* elapsed since its insertion makes exactly one network fetch, stores the
\* fetched result in place of the old one with the time of the call as the
\* new insertion time (so C1 applies again from there), and refreshes no
\* entry of another key; the passing of time alone changes no entry.
C2_LazyExpiry ==
    [][/\ RefreshOf("builds", builds_cache, builds_cache')
       /\ RefreshOf("tests", tests_cache, tests_cache')
       /\ last'.fn = "builds" => tests_cache' = tests_cache
       /\ last'.fn = "tests" => builds_cache' = builds_cache
       /\ now' # now => builds_cache' = builds_cache /\ tests_cache' = tests_cache
      ]_vars

\* A call exactly TTL after the insertion fetched and restarted the ttl of
\* its key, while the expired entry of another key stayed as it was.
C2_Witness ==
    /\ last.fn = "tests"
    /\ last.prior = "expired"
    /\ last.net = 1
    /\ tests_cache[last.key] = [present |-> TRUE, value |-> last.tally, ins |-> now]
    /\ \E j \in TestKeys \ {last.key} :
         tests_cache[j].present /\ now = tests_cache[j].ins + TTL

-----------------------------------------------------------------------------
(* Properties of the aggregation pass (SpecPass) *)

\* A status that is an answer of the service, and not a success.
NonSuccess(status) == status > 0 /\ status # 200

C5_OrderPreservingMap ==
    /\ Len(pd_asked) <= Len(pd_builds)
    /\ \A i \in 1..Len(pd_asked) : pd_asked[i].build_id = pd_builds[i].id
    /\ pc = "returned"
         => /\ Len(pd_df) = Len(pd_builds)
            /\ Len(pd_asked) = Len(pd_builds)
            /\ \A i \in 1..Len(pd_builds) :
                 /\ pd_df[i]["Build"] = pd_builds[i].buildNumber
                 /\ pd_df[i]["Datetime"] =
                        (IF pd_builds[i].startTime = "" THEN <<"NaT">>
                         ELSE to_datetime(pd_builds[i].startTime))
                 /\ pd_df[i]["Link"] = pd_builds[i].link
            /\ pd_builds = <<>> => pd_df = <<>> /\ pd_asked = <<>>

\* A pass over two different builds, the later one first, has returned.
C5_Witness ==
    /\ pc = "returned"
    /\ Len(pd_builds) = 2
    /\ pd_builds[1].id = 2
    /\ pd_builds[2].id = 1
    /\ pd_df[1]["Build"] = <<"N", "/", "A">>
    /\ pd_df[2]["Build"] = <<"1", ".", "0">>

-----------------------------------------------------------------------------
(* Properties of the rates (SpecRates) *)

Abs(x) == IF x < 0 THEN 0 - x ELSE x

\* r hundredths of a percent is count/total*100 rounded to two decimals:
\* no hundredth is nearer to the exact quotient.
IsRounded(r, count, total) == 2 * Abs(r * total - count * 10000) <= total

\* C6: for every tally the record has passRate = round(passed/total*100, 2)
\* and failRate = round(failed/total*100, 2) when total > 0, and both 0 when
\* total = 0; 7 passed and 3 failed of 10 give 70.0 and 30.0.
C6_Rates ==
    r_data # <<>> =>
        LET row == r_data[1]
        IN  /\ row["Passed"] = r_tally.passed
            /\ row["Failed"] = r_tally.failed
            /\ row["Total"] = r_tally.total
            /\ r_tally.total > 0
                 => /\ IsRounded(row["Pass Rate (%)"], r_tally.passed, r_tally.total)
                    /\ IsRounded(row["Fail Rate (%)"], r_tally.failed, r_tally.total)
            /\ r_tally.total = 0
                 => row["Pass Rate (%)"] = 0 /\ row["Fail Rate (%)"] = 0
            /\ r_tally = [passed |-> 7, failed |-> 3, total |-> 10]
                 => row["Pass Rate (%)"] = 7000 /\ row["Fail Rate (%)"] = 3000

\* The record of a tally whose rates do not come out even: 2 of 3 passed.
C6_Witness ==
    /\ r_data # <<>>
    /\ r_tally = [passed |-> 2, failed |-> 1, total |-> 3]
    /\ r_data[1]["Pass Rate (%)"] = 6667
    /\ r_data[1]["Fail Rate (%)"] = 3333

-----------------------------------------------------------------------------
(* Properties of the tally (SpecTally) *)

PassedSpellings == {"passed", "Passed", "PASSED"}
FailedSpellings == {"failed", "Failed", "FAILED"}

\* The number of records whose outcome is one of the spellings.
Spelled(records, spellings) ==
    Cardinality({i \in 1..Len(records) :
                    /\ "outcome" \in DOMAIN records[i]
                    /\ records[i].outcome \in spellings})

\* C8: a 200 answer carrying the records as a bare list and one carrying
\* the same records under "value" give the same tally: passed and failed
\* count the records whose outcome is "passed" / "failed" in any case,
\* total counts them all.
C8_ShapeTolerance ==
    /\ t_out.bare # Pending
         => /\ ~t_out.bare.raised
            /\ t_out.bare.value = [passed |-> Spelled(t_content, PassedSpellings),
                                   failed |-> Spelled(t_content, FailedSpellings),
                                   total |-> Len(t_content)]
    /\ t_out.wrapped # Pending
         => /\ ~t_out.wrapped.raised
            /\ t_out.wrapped.value = [passed |-> Spelled(t_content, PassedSpellings),
                                      failed |-> Spelled(t_content, FailedSpellings),
                                      total |-> Len(t_content)]
    /\ t_out.bare # Pending /\ t_out.wrapped # Pending
         => t_out.bare = t_out.wrapped

\* Both shapes fetched for records in three spellings and one other outcome.
C8_Witness ==
    /\ t_out.bare # Pending
    /\ t_out.wrapped # Pending
    /\ t_content = <<Res("PASSED"), Res("Failed"), Res("NotExecuted")>>
    /\ t_out.wrapped.value = [passed |-> 1, failed |-> 1, total |-> 3]

\* C10: whatever the answer, the tally has passed >= 0, failed >= 0 and
\* passed + failed <= total; so the record's rates lie in [0, 100] and add
\* up to at most 100.
C10_TallyInvariant ==
    /\ \A which \in {"bare", "wrapped", "failed"} :
         ~t_out[which].raised
           => /\ t_out[which].value.passed >= 0
              /\ t_out[which].value.failed >= 0
              /\ t_out[which].value.passed + t_out[which].value.failed
                    <= t_out[which].value.total
    /\ t_out.failed.value = [passed |-> 0, failed |-> 0, total |-> 0]
    /\ t_row # <<>>
         => /\ t_row[1]["Pass Rate (%)"] \in 0..10000
            /\ t_row[1]["Fail Rate (%)"] \in 0..10000
            /\ t_row[1]["Pass Rate (%)"] + t_row[1]["Fail Rate (%)"] <= 10000

\* A record whose total is more than passed and failed together.
C10_Witness ==
    /\ t_row # <<>>
    /\ t_row[1]["Total"] = 3
    /\ t_row[1]["Passed"] = 1
    /\ t_row[1]["Failed"] = 1
    /\ t_row[1]["Pass Rate (%)"] = 3333

-----------------------------------------------------------------------------
(* Properties of the filter (SpecFilter) *)

\* sub occurs in s: s is some prefix, then sub, then some suffix.
Occurs(sub, s) ==
    \E i \in 0..Len(s) : \E j \in i..Len(s) : SubSeq(s, i + 1, j) = sub

\* out is the subsequence of inp, in order, of the builds whose buildNumber
\* holds sub.
IsSubsequenceHolding(out, inp, sub) ==
    LET hits == {i \in 1..Len(inp) : Occurs(sub, inp[i].buildNumber)}
    IN  /\ Len(out) = Cardinality(hits)
        /\ \A i \in hits : out[Cardinality({j \in hits : j <= i})] = inp[i]

\* C9: the filter returns exactly the subsequence, in input order, of the
\* builds whose buildNumber contains the substring, case-sensitively; with
\* "None" selected the list passes unchanged; and applying it to a list
\* already filtered returns that list.
C9_Filter ==
    /\ [](f_runs >= 1 /\ f_sel # "None"
            => IsSubsequenceHolding(f_builds, f_input, BUILD_FILTERS[f_sel]))
    /\ [](f_sel = "None" => f_builds = f_input)
    /\ [][f_runs >= 1 => f_builds' = f_builds]_vars

\* The filter applied twice: two of three builds kept, the one whose
\* buildNumber has the substring in the other case dropped.
C9_Witness ==
    /\ f_runs = 2
    /\ f_sel = "nightly"
    /\ Len(f_input) = 3
    /\ f_input[2].buildNumber = <<"N", "r">>
    /\ Len(f_builds) = 2
    /\ f_builds = <<f_input[1], f_input[3]>>
    /\ f_builds[1].buildNumber = <<"R", "n">>

-----------------------------------------------------------------------------
(* Properties of the staleness flag (SpecStale) *)

\* The builds a probe answer lists: none unless it is a 200 with "value".
Listed(response) ==
    IF response.kind = "http" /\ response.status_code = 200
       /\ "value" \in DOMAIN response.json.val
    THEN response.json.val["value"]
    ELSE <<>>

\* C7: with X the newest build id of the cached data and Y the marker the
\* probe wrote for the pipeline, the render flags staleness exactly when a
\* marker exists and Y differs from X; the marker is the id of the newest
\* build the probe was answered with, and a probe that yields no builds
\* writes none; the cached table is rendered in every case.
C7_Staleness ==
    [][/\ s_view' # s_view
            => LET name == s_view'.name
                   table == s_cached[name]
               IN  /\ s_view'.table = table
                   /\ s_view'.stale
                        <=> /\ name \in DOMAIN s_marker
                            /\ \/ table = <<>>
                               \/ s_marker[name] # table[1].id
       /\ \A name \in DOMAIN PIPELINES :
            s_probe'[name] # s_probe[name]
              => IF Listed(s_probe'[name]) # <<>>
                 THEN /\ name \in DOMAIN s_marker'
                      /\ s_marker'[name] = Listed(s_probe'[name])[1].id
                      /\ \A n \in DOMAIN s_marker \ {name} :
                            n \in DOMAIN s_marker' /\ s_marker'[n] = s_marker[n]
                 ELSE s_marker' = s_marker
       /\ s_probe' = s_probe => s_marker' = s_marker
      ]_vars

\* The cached table's newest build is 1, the probe saw 3: flagged, and the
\* cached table rendered.
C7_Witness ==
    /\ s_view.stale
    /\ s_view.table # <<>>
    /\ s_view.table = s_cached[s_view.name]
    /\ s_view.table[1].id = 1
    /\ s_view.name \in DOMAIN s_marker
    /\ s_marker[s_view.name] = 3

====
